---- MODULE Spec2Model ----
(***************************************************************************)
(* A model of bep/npmgoproxy: a Go module proxy that serves npm packages.  *)
(* Strings are TLA+ strings, handled a byte at a time with Len, SubSeq and *)
(* \o, so that escaping, version parsing and path routing are computed as  *)
(* the Go code computes them.                                              *)
(***************************************************************************)
EXTENDS Integers, Sequences, FiniteSets, TLC

VARIABLES
    sIn,        \* pure-function harness: the input
    sMid,       \* pure-function harness: the result of the first application
    sOut,       \* pure-function harness: the result of the last application
    sOp,        \* pure-function harness: which function has been applied
    pc,         \* where the server's request handler stands
    req,        \* the request being served: method and URL path
    route,      \* the id of the route that matched
    mctx,       \* the moduleContext handed to the route's handler
    npmv,       \* the internal.Version the handler fetched
    resp,       \* what has been written to the http.ResponseWriter
    fs,         \* the paths that exist on disk
    tempDir,    \* the staging directory this request created, or ""
    zipFile,    \* the name of the open zip file f, or ""
    built,      \* the module.Version handed to zip.CreateFromDir
    fetched,    \* the bytes the tarball download wrote
    dlErr,      \* the error downloadTarball returned
    upstream,   \* the status code of the registry's answer to this request
    doc,        \* the "versions" map a one-call handler decoded, as visited
    calls,      \* outbound HTTP calls made for this request
    served,     \* requests served so far
    inflight    \* concurrent archive requests: each handler's own locals

strVars == <<sIn, sMid, sOut, sOp>>

srvVars == <<pc, req, route, mctx, npmv, resp, fs, tempDir, zipFile, built,
             fetched, dlErr, upstream, doc, calls, served, inflight>>

vars == <<strVars, srvVars>>

----------------------------------------------------------------------------
(* Bounds of the model.                                                    *)

MaxNameLen == 5
MaxVerLen == 6
MaxVersions == 3
MaxDeps == 2
MaxRequests == 1
MaxInFlight == 2

----------------------------------------------------------------------------
(* Go's string primitives.                                                 *)

\* s[i:] and s[:i] with Go's 0-based, half-open indices.
From(s, i) == SubSeq(s, i + 1, Len(s))
Upto(s, i) == SubSeq(s, 1, i)
\* s[i], as a one-byte string; "" past the end.
At(s, i) == IF 0 <= i /\ i < Len(s) THEN SubSeq(s, i + 1, i + 1) ELSE ""

HasPrefix(s, prefix) ==
    Len(s) >= Len(prefix) /\ Upto(s, Len(prefix)) = prefix

HasSuffix(s, suffix) ==
    Len(s) >= Len(suffix) /\ From(s, Len(s) - Len(suffix)) = suffix

TrimPrefix(s, prefix) ==
    IF HasPrefix(s, prefix) THEN From(s, Len(prefix)) ELSE s

\* strings.ReplaceAll for a non-empty old: matches are found left to right and
\* do not overlap.
RECURSIVE ReplaceAll(_, _, _)
ReplaceAll(s, old, new) ==
    IF Len(s) < Len(old) THEN s
    ELSE IF Upto(s, Len(old)) = old
         THEN new \o ReplaceAll(From(s, Len(old)), old, new)
         ELSE Upto(s, 1) \o ReplaceAll(From(s, 1), old, new)

\* strings.Index: the 0-based offset of the first sub in s, or -1.
RECURSIVE IndexFrom(_, _, _)
IndexFrom(s, sub, i) ==
    IF i + Len(sub) > Len(s) THEN -1
    ELSE IF SubSeq(s, i + 1, i + Len(sub)) = sub THEN i
         ELSE IndexFrom(s, sub, i + 1)

Index(s, sub) == IndexFrom(s, sub, 0)

\* strings.LastIndex restricted to offsets <= i.
RECURSIVE LastIndexUpto(_, _, _)
LastIndexUpto(s, sub, i) ==
    IF i < 0 THEN -1
    ELSE IF i + Len(sub) <= Len(s) /\ SubSeq(s, i + 1, i + Len(sub)) = sub THEN i
         ELSE LastIndexUpto(s, sub, i - 1)

\* The bytes of the model in ASCII order; Ord gives a byte's rank, which is
\* all that Go's string comparison reads.
Ascii == "!\"+-./0123456789:@ABCDEFGHIJKLMNOPQRSTUVWXYZ^_abcdefghijklmnopqrstuvwxyz~"

OrdTable == [c \in {At(Ascii, i) : i \in 0..(Len(Ascii) - 1)} |-> Index(Ascii, c)]

Ord(c) == OrdTable[c]

\* Go's s < t on strings: bytewise lexical order.
RECURSIVE StrLess(_, _)
StrLess(s, t) ==
    IF t = "" THEN FALSE
    ELSE IF s = "" THEN TRUE
    ELSE IF At(s, 0) = At(t, 0) THEN StrLess(From(s, 1), From(t, 1))
         ELSE Ord(At(s, 0)) < Ord(At(t, 0))

\* All strings over the bytes of alphabet, of length at most n.
RECURSIVE StringsUpTo(_, _)
StringsUpTo(alphabet, n) ==
    IF n = 0 THEN {""}
    ELSE LET shorter == StringsUpTo(alphabet, n - 1)
         IN  shorter \cup {s \o At(alphabet, i) :
                             s \in shorter, i \in 0..(Len(alphabet) - 1)}

----------------------------------------------------------------------------
(* internal/npm.go: package-name escaping and version normalisation.       *)

EscapePackage(p) == ReplaceAll(p, "@", "___")

UnEscapePackage(p) == ReplaceAll(p, "___", "@")

normalizeSemver_AlwaysPrefix(s) == "v" \o s

normalizeSemver(s) ==
    IF ~HasPrefix(s, "v") THEN "v" \o s ELSE s

----------------------------------------------------------------------------
(* golang.org/x/mod/semver, as internal/npm.go uses it.                    *)

\* The byte classes the libraries test with range comparisons.
BytesOf(s) == {At(s, i) : i \in 0..(Len(s) - 1)}

Digits == BytesOf("0123456789")
LowerLetters == BytesOf("abcdefghijklmnopqrstuvwxyz")
UpperLetters == BytesOf("ABCDEFGHIJKLMNOPQRSTUVWXYZ")

IsDigit(c) == c \in Digits

IsLetter(c) == c \in LowerLetters \/ c \in UpperLetters

\* The number of leading decimal digits of v from offset i on.
RECURSIVE DigitRun(_, _)
DigitRun(v, i) ==
    IF i < Len(v) /\ IsDigit(At(v, i)) THEN 1 + DigitRun(v, i + 1) ELSE 0

\* semver.parseInt: a decimal number without a leading zero.
parseInt(v) ==
    LET i == DigitRun(v, 0)
    IN  IF i = 0 \/ (At(v, 0) = "0" /\ i # 1)
        THEN [ok |-> FALSE, t |-> "", rest |-> ""]
        ELSE [ok |-> TRUE, t |-> Upto(v, i), rest |-> From(v, i)]

isIdentChar(c) == IsLetter(c) \/ IsDigit(c) \/ c = "-"

isNum(v) == DigitRun(v, 0) = Len(v)

isBadNum(v) == DigitRun(v, 0) = Len(v) /\ Len(v) > 1 /\ At(v, 0) = "0"

\* The scanning loop of semver.parsePrerelease (badNum TRUE) and of
\* semver.parseBuild (badNum FALSE): the offset where the part ends, or -1.
RECURSIVE IdentScan(_, _, _, _)
IdentScan(v, i, start, badNum) ==
    IF i < Len(v) /\ (~badNum \/ At(v, i) # "+")
    THEN IF ~isIdentChar(At(v, i)) /\ At(v, i) # "." THEN -1
         ELSE IF At(v, i) = "."
              THEN IF start = i \/ (badNum /\ isBadNum(SubSeq(v, start + 1, i)))
                   THEN -1
                   ELSE IdentScan(v, i + 1, i + 1, badNum)
              ELSE IdentScan(v, i + 1, start, badNum)
    ELSE IF start = i \/ (badNum /\ isBadNum(SubSeq(v, start + 1, i)))
         THEN -1
         ELSE i

NotSemver ==
    [ok |-> FALSE, major |-> "", minor |-> "", patch |-> "",
     prerelease |-> "", build |-> ""]

\* semver.parse, from its end backwards. Each step takes the parsed record p
\* so far and what the step before it found.

\* The build part ends at offset be of v (0: there is none, -1: malformed);
\* nothing may follow it.
parseEnd(p, v, be) ==
    IF be = -1 \/ From(v, be) # "" THEN NotSemver
    ELSE [p EXCEPT !.ok = TRUE, !.build = Upto(v, be)]

parseBuild(p, v) ==
    parseEnd(p, v, IF At(v, 0) = "+" THEN IdentScan(v, 1, 1, FALSE) ELSE 0)

\* The prerelease part ends at offset pe of v (0: there is none, -1: malformed).
parsePrereleaseEnd(p, v, pe) ==
    IF pe = -1 THEN NotSemver
    ELSE parseBuild([p EXCEPT !.prerelease = Upto(v, pe)], From(v, pe))

parsePrerelease(p, v) ==
    parsePrereleaseEnd(p, v, IF At(v, 0) = "-" THEN IdentScan(v, 1, 1, TRUE) ELSE 0)

\* pa is parseInt of the patch number.
parsePatch(p, pa) ==
    IF ~pa.ok THEN NotSemver
    ELSE parsePrerelease([p EXCEPT !.patch = pa.t], pa.rest)

\* mi is parseInt of the minor number; "vMAJOR.MINOR" is short for patch 0.
parseMinor(p, mi) ==
    IF ~mi.ok THEN NotSemver
    ELSE IF mi.rest = "" THEN [p EXCEPT !.ok = TRUE, !.minor = mi.t, !.patch = "0"]
    ELSE IF At(mi.rest, 0) # "." THEN NotSemver
    ELSE parsePatch([p EXCEPT !.minor = mi.t], parseInt(From(mi.rest, 1)))

\* ma is parseInt of the major number; "vMAJOR" is short for minor and patch 0.
parseMajor(ma) ==
    IF ~ma.ok THEN NotSemver
    ELSE IF ma.rest = ""
         THEN [NotSemver EXCEPT !.ok = TRUE, !.major = ma.t, !.minor = "0",
                                !.patch = "0"]
    ELSE IF At(ma.rest, 0) # "." THEN NotSemver
    ELSE parseMinor([NotSemver EXCEPT !.major = ma.t], parseInt(From(ma.rest, 1)))

\* semver.parse: "v" MAJOR [ "." MINOR [ "." PATCH [ "-" PRE ] [ "+" BUILD ] ] ].
parse(v) ==
    IF v = "" \/ At(v, 0) # "v" THEN NotSemver
    ELSE parseMajor(parseInt(From(v, 1)))

\* semver.compareInt: decimal strings without leading zeros, by length and
\* then bytewise.
compareInt(x, y) ==
    IF x = y THEN 0
    ELSE IF Len(x) < Len(y) THEN -1
    ELSE IF Len(x) > Len(y) THEN 1
    ELSE IF StrLess(x, y) THEN -1 ELSE 1

\* semver.nextIdent: the offset of the first "." of x, or Len(x).
identEndAt(x, i) == IF i = -1 THEN Len(x) ELSE i

identEnd(x) == identEndAt(x, Index(x, "."))

\* The comparison of two differing prerelease identifiers: a numeric one is
\* below an alphanumeric one, numeric ones compare by length first.
compareIdent(dx, dy, nx, ny) ==
    IF nx # ny THEN (IF nx THEN -1 ELSE 1)
    ELSE IF nx /\ Len(dx) < Len(dy) THEN -1
    ELSE IF nx /\ Len(dx) > Len(dy) THEN 1
    ELSE IF StrLess(dx, dy) THEN -1 ELSE 1

\* The loop of semver.comparePrerelease; ex and ey are where the first
\* identifiers of x and y end, after the "-" or "." before them.
RECURSIVE comparePrereleaseLoop(_, _)
comparePrereleaseStep(x, y, ex, ey) ==
    IF SubSeq(x, 2, ex + 1) # SubSeq(y, 2, ey + 1)
    THEN compareIdent(SubSeq(x, 2, ex + 1), SubSeq(y, 2, ey + 1),
                      isNum(SubSeq(x, 2, ex + 1)), isNum(SubSeq(y, 2, ey + 1)))
    ELSE comparePrereleaseLoop(From(x, ex + 1), From(y, ey + 1))

comparePrereleaseLoop(x, y) ==
    IF x # "" /\ y # ""
    THEN comparePrereleaseStep(x, y, identEnd(From(x, 1)), identEnd(From(y, 1)))
    ELSE IF x = "" THEN -1 ELSE 1

comparePrerelease(x, y) ==
    IF x = y THEN 0
    ELSE IF x = "" THEN 1
    ELSE IF y = "" THEN -1
    ELSE comparePrereleaseLoop(x, y)

\* semver.Compare on the parsed versions: an invalid version is below every
\* valid one and equal to every invalid one; build metadata is ignored.
compareParsed(pv, pw) ==
    IF ~pv.ok /\ ~pw.ok THEN 0
    ELSE IF ~pv.ok THEN -1
    ELSE IF ~pw.ok THEN 1
    ELSE IF pv.major # pw.major THEN compareInt(pv.major, pw.major)
    ELSE IF pv.minor # pw.minor THEN compareInt(pv.minor, pw.minor)
    ELSE IF pv.patch # pw.patch THEN compareInt(pv.patch, pw.patch)
    ELSE comparePrerelease(pv.prerelease, pw.prerelease)

semverCompare(v, w) == compareParsed(parse(v), parse(w))

\* semver.Major: "v" and the major number, or "" for an invalid version.
majorOf(v, pv) == IF ~pv.ok THEN "" ELSE Upto(v, 1 + Len(pv.major))

semverMajor(v) == majorOf(v, parse(v))

----------------------------------------------------------------------------
(* Go's sort.Slice on a slice of fewer than 12 elements: insertion sort,   *)
(* swapping element j with j-1 while less(j, j-1).                         *)

SortSlice(s, Less(_, _)) ==
    LET RECURSIVE SinkDown(_, _)
        SinkDown(t, j) ==
            IF j > 1 /\ Less(t[j], t[j - 1])
            THEN SinkDown([t EXCEPT ![j] = t[j - 1], ![j - 1] = t[j]], j - 1)
            ELSE t
        RECURSIVE SortFrom(_, _)
        SortFrom(t, i) ==
            IF i > Len(t) THEN t ELSE SortFrom(SinkDown(t, i), i + 1)
    IN  SortFrom(s, 2)

----------------------------------------------------------------------------
(* Go's path package (path.Join, path.Clean) and filepath.Dir on Linux.    *)

\* strings.Split(s, "/").
RECURSIVE SplitSlash(_)
SplitSlash(s) ==
    LET i == Index(s, "/")
    IN  IF i = -1 THEN <<s>> ELSE <<Upto(s, i)>> \o SplitSlash(From(s, i + 1))

\* strings.Join(elems, sep).
RECURSIVE JoinStrings(_, _)
JoinStrings(elems, sep) ==
    IF elems = <<>> THEN ""
    ELSE IF Len(elems) = 1 THEN elems[1]
    ELSE elems[1] \o sep \o JoinStrings(Tail(elems), sep)

\* The element stack path.Clean builds: "" and "." are dropped, ".." pops.
RECURSIVE CleanElems(_, _, _)
CleanElems(elems, out, rooted) ==
    IF elems = <<>> THEN out
    ELSE LET e == Head(elems)
             rest == Tail(elems)
         IN  IF e = "" \/ e = "." THEN CleanElems(rest, out, rooted)
             ELSE IF e = ".."
                  THEN IF out # <<>> /\ out[Len(out)] # ".."
                       THEN CleanElems(rest, SubSeq(out, 1, Len(out) - 1), rooted)
                       ELSE IF rooted THEN CleanElems(rest, out, rooted)
                       ELSE CleanElems(rest, Append(out, e), rooted)
             ELSE CleanElems(rest, Append(out, e), rooted)

PathClean(p) ==
    IF p = "" THEN "."
    ELSE LET rooted == At(p, 0) = "/"
             body == JoinStrings(CleanElems(SplitSlash(p), <<>>, rooted), "/")
         IN  IF rooted THEN "/" \o body
             ELSE IF body = "" THEN "." ELSE body

\* path.Join: the non-empty elements joined by "/", then cleaned.
PathJoin(elems) ==
    LET kept == SelectSeq(elems, LAMBDA e : e # "")
    IN  IF kept = <<>> THEN "" ELSE PathClean(JoinStrings(kept, "/"))

\* filepath.Dir: all but the last element, cleaned.
FilepathDir(p) ==
    PathClean(Upto(p, LastIndexUpto(p, "/", Len(p) - 1) + 1))

----------------------------------------------------------------------------
(* golang.org/x/mod/module, as npmgop/server.go uses it.                   *)

Uppers == "ABCDEFGHIJKLMNOPQRSTUVWXYZ"
Lowers == "abcdefghijklmnopqrstuvwxyz"

IsUpper(c) == c \in UpperLetters

ToLowerByte(c) == IF IsUpper(c) THEN At(Lowers, Index(Uppers, c)) ELSE c

RECURSIVE ToLower(_)
ToLower(s) == IF s = "" THEN "" ELSE ToLowerByte(At(s, 0)) \o ToLower(From(s, 1))

\* The offset at which the trailing run of digits and dots of path starts, and
\* whether the run holds a dot (the loop of module.SplitPathVersion).
RECURSIVE VersionRunStart(_, _)
VersionRunStart(path, i) ==
    IF i > 0 /\ (IsDigit(At(path, i - 1)) \/ At(path, i - 1) = ".")
    THEN VersionRunStart(path, i - 1)
    ELSE i

\* module.SplitPathVersion (gopkg.in paths apart): a trailing "/vN", N >= 2.
\* i is where the trailing run of digits and dots starts.
splitAt(path, i) ==
    IF i <= 1 \/ i = Len(path) \/ At(path, i - 1) # "v" \/ At(path, i - 2) # "/"
    THEN [prefix |-> path, pathMajor |-> "", ok |-> TRUE]
    ELSE IF Index(From(path, i), ".") # -1 \/ Len(path) - (i - 2) <= 2
               \/ At(path, i) = "0" \/ From(path, i - 2) = "/v1"
         THEN [prefix |-> path, pathMajor |-> "", ok |-> FALSE]
         ELSE [prefix |-> Upto(path, i - 2), pathMajor |-> From(path, i - 2),
               ok |-> TRUE]

SplitPathVersion(path) == splitAt(path, VersionRunStart(path, Len(path)))

modPathOK(c) ==
    c = "-" \/ c = "." \/ c = "_" \/ c = "~" \/ IsDigit(c) \/ IsLetter(c)

firstPathOK(c) == c = "-" \/ c = "." \/ IsDigit(c) \/ c \in LowerLetters

badWindowsNames ==
    {"con", "prn", "aux", "nul", "com1", "com2", "com3", "com4", "com5", "com6",
     "com7", "com8", "com9", "lpt1", "lpt2", "lpt3", "lpt4", "lpt5", "lpt6",
     "lpt7", "lpt8", "lpt9"}

MinOf(S) == CHOOSE i \in S : \A j \in S : i <= j

\* module.checkElem for a module path: "" when the element is accepted,
\* otherwise what is wrong with it. short is the element up to its first dot,
\* tilde the offset of the last "~" of short.
checkShortName(short, tilde) ==
    IF ToLower(short) \in badWindowsNames
    THEN "\"" \o short \o "\" disallowed as path element component on Windows"
    ELSE IF tilde >= 0 /\ tilde < Len(short) - 1
            /\ DigitRun(short, tilde + 1) = Len(short) - tilde - 1
         THEN "trailing tilde and digits in path element"
         ELSE ""

checkShort(short) == checkShortName(short, LastIndexUpto(short, "~", Len(short) - 1))

\* bad holds the offsets of the bytes of elem that modPathOK refuses, dot the
\* offset of the first dot of elem.
checkElemBytes(elem, bad, dot) ==
    IF bad # {} THEN "invalid char '" \o At(elem, MinOf(bad)) \o "'"
    ELSE checkShort(IF dot >= 0 THEN Upto(elem, dot) ELSE elem)

checkElem(elem) ==
    IF elem = "" THEN "empty path element"
    ELSE IF \A i \in 0..(Len(elem) - 1) : At(elem, i) = "."
         THEN "invalid path element \"" \o elem \o "\""
    ELSE IF At(elem, 0) = "." THEN "leading dot in path element"
    ELSE IF At(elem, Len(elem) - 1) = "." THEN "trailing dot in path element"
    ELSE checkElemBytes(elem, {i \in 0..(Len(elem) - 1) : ~modPathOK(At(elem, i))},
                        Index(elem, "."))

\* The element loop of module.checkPath: the first error.
RECURSIVE checkElems(_)
checkElemsAfter(err, rest) == IF err # "" THEN err ELSE checkElems(rest)

checkElems(elems) ==
    IF elems = <<>> THEN "" ELSE checkElemsAfter(checkElem(Head(elems)), Tail(elems))

\* module.checkPath for a module path.
checkPath(path) ==
    IF path = "" THEN "empty string"
    ELSE IF At(path, 0) = "-" THEN "leading dash"
    ELSE IF Index(path, "//") # -1 THEN "double slash"
    ELSE IF At(path, Len(path) - 1) = "/" THEN "trailing slash"
    ELSE checkElems(SplitSlash(path))

\* module.CheckPath after checkPath: first is the first path element, bad the
\* offsets of its bytes that firstPathOK refuses.
checkFirst(path, first, bad) ==
    IF first = "" THEN "leading slash"
    ELSE IF Index(first, ".") = -1 THEN "missing dot in first path element"
    ELSE IF At(path, 0) = "-" THEN "leading dash in first path element"
    ELSE IF bad # {}
         THEN "invalid char '" \o At(first, MinOf(bad)) \o "' in first path element"
    ELSE IF ~SplitPathVersion(path).ok THEN "invalid version"
    ELSE ""

checkFirstElem(path, first) ==
    checkFirst(path, first, {i \in 0..(Len(first) - 1) : ~firstPathOK(At(first, i))})

checkPathThen(path, err) ==
    IF err # "" THEN err ELSE checkFirstElem(path, Head(SplitSlash(path)))

\* module.CheckPath: "" when path is a valid module path.
CheckPath(path) == checkPathThen(path, checkPath(path))

\* module.escapeString: an upper-case letter becomes "!" and its lower case.
RECURSIVE escapeString(_)
escapeString(s) ==
    IF s = "" THEN ""
    ELSE (IF IsUpper(At(s, 0)) THEN "!" \o ToLowerByte(At(s, 0)) ELSE At(s, 0))
         \o escapeString(From(s, 1))

escapeChecked(path, err) ==
    IF err # ""
    THEN [escaped |-> "",
          err |-> "malformed module path \"" \o path \o "\": " \o err]
    ELSE [escaped |-> escapeString(path), err |-> ""]

\* module.EscapePath: the escaped path, or the error of CheckPath.
EscapePath(path) == escapeChecked(path, CheckPath(path))

----------------------------------------------------------------------------
(* internal/npm.go: the registry document and its decoding.                *)

ModPathBase == "gohugo.io/npmjs"

ZeroVersion ==
    [Name |-> "", Version |-> "", Dependencies |-> <<>>,
     Dist |-> [ShaSum |-> "", Tarball |-> ""]]

ZeroPackage == [Name |-> "", DistTags |-> [Latest |-> ""], Versions |-> <<>>]

\* Dependencies.UnmarshalJSON: m is the decoded map as the range statement
\* visits it; the result is sorted by name.
DependencyLess(vi, vj) == StrLess(vi.Name, vj.Name)

DependenciesUnmarshalJSON_Unsorted(m) ==
    [i \in 1..Len(m) |-> [Name |-> m[i].k, VersionRange |-> m[i].v]]

DependenciesUnmarshalJSON(m) ==
    SortSlice([i \in 1..Len(m) |-> [Name |-> m[i].k, VersionRange |-> m[i].v]],
              DependencyLess)

\* DistTags.UnmarshalJSON: m["latest"] is "" when the key is absent.
DistTagsUnmarshalJSON(m) ==
    [Latest |-> normalizeSemver(IF m = <<>> THEN "" ELSE m[1])]

\* encoding/json filling a Version from one value of the "versions" map.
DecodeVersion(j) ==
    [Name |-> j.name,
     Version |-> j.version,
     Dependencies |-> DependenciesUnmarshalJSON(j.dependencies),
     Dist |-> [ShaSum |-> j.dist.shasum, Tarball |-> j.dist.tarball]]

\* The less function of Versions.UnmarshalJSON.
VersionLess_Lexical(vi, vj) == StrLess(vi.Version, vj.Version)

lessByCompare(cmp, vi, vj) ==
    IF cmp # 0 THEN cmp < 0 ELSE StrLess(vi.Version, vj.Version)

VersionLess(vi, vj) == lessByCompare(semverCompare(vi.Version, vj.Version), vi, vj)

\* Versions.UnmarshalJSON: m is the decoded map as the range statement visits
\* it; every version is normalised, then the slice is sorted.
VersionsUnmarshalJSON(m) ==
    SortSlice([i \in 1..Len(m) |->
                  [DecodeVersion(m[i]) EXCEPT !.Version = normalizeSemver(@)]],
              VersionLess)

\* Versions.ByVersion: the named result ver is the loop variable, so a miss
\* returns the last version visited.
firstHit(vs, hits) ==
    IF hits # {}
    THEN [ver |-> vs[MinOf(hits)], found |-> TRUE]
    ELSE [ver |-> IF vs = <<>> THEN ZeroVersion ELSE vs[Len(vs)], found |-> FALSE]

ByVersion(vs, v) == firstHit(vs, {i \in 1..Len(vs) : vs[i].Version = v})

\* %q of a plain ASCII string.
Quote(s) == "\"" \o s \o "\""

\* FetchPackage: one GET against the registry, whose answer is answer. The
\* status code is not read; the body is decoded whatever it is.
FetchPackage(s, answer) ==
    IF answer.kind = "unreachable"
    THEN [pkg |-> ZeroPackage,
          err |-> "Get " \o Quote("https://registry.npmjs.org/" \o s)
                  \o ": context deadline exceeded"]
    ELSE IF ~answer.json
         THEN [pkg |-> ZeroPackage,
               err |-> "invalid character '<' looking for beginning of value"]
         ELSE [pkg |-> [Name |-> answer.name,
                        DistTags |-> IF answer.hasTags
                                     THEN DistTagsUnmarshalJSON(answer.tags)
                                     ELSE [Latest |-> ""],
                        Versions |-> VersionsUnmarshalJSON(answer.versions)],
               err |-> ""]

\* FetchPackageVersion after FetchPackage returned f, and after ByVersion
\* returned bv.
versionLookedUp(pack, version, bv) ==
    IF ~bv.found
    THEN [npmv |-> bv.ver,
          err |-> "version " \o Quote(version)
                  \o " not found for package " \o Quote(pack)]
    ELSE [npmv |-> bv.ver, err |-> ""]

versionOf(pack, version, f) ==
    IF f.err # "" THEN [npmv |-> ZeroVersion, err |-> f.err]
    ELSE versionLookedUp(pack, version, ByVersion(f.pkg.Versions, version))

FetchPackageVersion(pack, version, answer) ==
    versionOf(pack, version, FetchPackage(pack, answer))

----------------------------------------------------------------------------
(* npmgop/server.go: routing.                                              *)

npmjsPrefix == ModPathBase \o "/"

NoContext == [NpmPackage |-> "", Version |-> "", PathMajorVersion |-> ""]

NoResponse == [status |-> 0, body |-> "", complete |-> FALSE]

\* What a handler has written when it returns: the status (200 when the
\* first Write comes without a WriteHeader) and the whole body.
Respond(status, body) == [status |-> status, body |-> body, complete |-> TRUE]

\* http.NotFound.
NotFound == Respond(404, "404 page not found\n")

\* npmGoModProxy.fail.
fail_ImplicitOK(what, err) == Respond(200, what \o ": " \o err)

fail(what, err) == Respond(500, what \o ": " \o err)

NoMatch == [ok |-> FALSE, module |-> "", version |-> ""]

\* apiList, ^/(?P<module>.*)/@v/list$
MatchList(path) ==
    IF HasPrefix(path, "/") /\ HasSuffix(path, "/@v/list") /\ Len(path) >= 9
    THEN [ok |-> TRUE, module |-> SubSeq(path, 2, Len(path) - 8), version |-> ""]
    ELSE NoMatch

\* apiInfo, apiMod and apiZip, ^/(?P<module>.*)/@v/(?P<version>.*).EXT$ : the
\* greedy module group takes the last "/@v/" that leaves room for the version
\* group, one more byte (the unescaped dot) and EXT.
MatchExt(path, ext) ==
    LET i == LastIndexUpto(path, "/@v/", Len(path) - Len(ext) - 5)
    IN  IF HasPrefix(path, "/") /\ HasSuffix(path, ext) /\ i >= 1
        THEN [ok |-> TRUE,
              module |-> SubSeq(path, 2, i),
              version |-> SubSeq(path, i + 5, Len(path) - Len(ext) - 1)]
        ELSE NoMatch

\* The route table of ServeHTTP, in its order.
Routes == <<"list", "info", "npmgomodproxy", "zip">>

RouteMatch(id, path) ==
    CASE id = "list" -> MatchList(path)
      [] id = "info" -> MatchExt(path, "info")
      [] id = "npmgomodproxy" -> MatchExt(path, "mod")
      [] id = "zip" -> MatchExt(path, "zip")

Immediate(response) == [handler |-> "", resp |-> response, mctx |-> NoContext]

\* The body of the route loop for the first route that matches: esc is what
\* module.EscapePath returned, split what module.SplitPathVersion returned.
dispatchSplit(id, m, split) ==
    [handler |-> id,
     resp |-> NoResponse,
     mctx |-> [NpmPackage |-> UnEscapePackage(TrimPrefix(split.prefix, npmjsPrefix)),
               PathMajorVersion |-> split.pathMajor,
               Version |-> m.version]]

dispatchEscaped(id, m, esc) ==
    IF esc.err # "" THEN Immediate(fail("failed to escape path", esc.err))
    ELSE IF esc.escaped = ModPathBase THEN Immediate(NotFound)
    ELSE dispatchSplit(id, m, SplitPathVersion(esc.escaped))

Dispatch(id, m) == dispatchEscaped(id, m, EscapePath(m.module))

\* The route loop: hits are the routes whose pattern matches path.
firstRoute(path, id) == Dispatch(id, RouteMatch(id, path))

routeAmong(path, hits) ==
    IF hits = {} THEN Immediate(NotFound) ELSE firstRoute(path, Routes[MinOf(hits)])

Route(path) ==
    IF ~HasPrefix(path, "/" \o npmjsPrefix) THEN Immediate(NotFound)
    ELSE routeAmong(path, {i \in 1..Len(Routes) : RouteMatch(Routes[i], path).ok})

ServeHTTP_RouteEveryMethod(r) == Route(r.path)

\* npmGoModProxy.ServeHTTP up to the call of the route's handler: either a
\* response of its own (handler "") or the handler to run and its context.
ServeHTTP(r) ==
    IF r.method = "DELETE" THEN Immediate(Respond(405, ""))
    ELSE Route(r.path)

----------------------------------------------------------------------------
(* npmgop/server.go: the list, info and manifest handlers.                 *)

\* What a handler leaves behind: what it wrote and the version it fetched.
Handled(response, version) == [resp |-> response, npmv |-> version]

\* npmGoModProxy.List, after FetchPackage returned f.
listOf(f) ==
    IF f.err # "" THEN Handled(fail("failed to fetch package", f.err), ZeroVersion)
    ELSE Handled(Respond(200, JoinStrings([i \in 1..Len(f.pkg.Versions) |->
                                              f.pkg.Versions[i].Version], "\n")),
                 ZeroVersion)

\* npmGoModProxy.List
List(ctx, answer) == listOf(FetchPackage(ctx.NpmPackage, answer))

\* npmGoModProxy.encodeVersion: the zero time.Time is what Time encodes.
encodeVersion(version) ==
    "{\"Version\":" \o Quote(version.Version)
      \o ",\"Time\":\"0001-01-01T00:00:00Z\"}\n"

\* npmGoModProxy.Info, after FetchPackageVersion returned f.
infoOf(f) ==
    IF f.err # ""
    THEN Handled(fail("failed to fetch package version", f.err), f.npmv)
    ELSE Handled(Respond(200, encodeVersion(f.npmv)), f.npmv)

\* npmGoModProxy.Info
Info(ctx, answer) ==
    infoOf(FetchPackageVersion(ctx.NpmPackage, ctx.Version, answer))

\* depLine of npmGoModProxy.Mod
depLine(dep) ==
    "\tgohugo.io/npmjs/" \o EscapePackage(dep.Name) \o "/v3 " \o "v3.1.1" \o "\n"

RECURSIVE depLines(_)
depLines(deps) ==
    IF deps = <<>> THEN "" ELSE depLine(Head(deps)) \o depLines(Tail(deps))

requires(deps) ==
    IF Len(deps) > 0 THEN "require (\n" \o depLines(deps) \o ")\n" ELSE ""

\* The module path the manifest declares.
ModModulePath(ctx) ==
    "gohugo.io/npmjs/" \o PathJoin(<<ctx.NpmPackage, ctx.PathMajorVersion>>)

gomod(modulePath, reqs) ==
    "\n\nmodule " \o modulePath \o "\n\n" \o reqs \o "\n\ngo 1.17\n\t\n\t\n"

\* npmGoModProxy.Mod, after FetchPackageVersion returned f.
modOf(ctx, f) ==
    IF f.err # ""
    THEN Handled(fail("failed to fetch package version", f.err), f.npmv)
    ELSE Handled(Respond(200, gomod(ModModulePath(ctx),
                                    requires(f.npmv.Dependencies))),
                 f.npmv)

\* npmGoModProxy.Mod
Mod(ctx, answer) ==
    modOf(ctx, FetchPackageVersion(ctx.NpmPackage, ctx.Version, answer))

----------------------------------------------------------------------------
(* internal/npm.go: the tarball download and the repacking as a zip.       *)

\* os.MkdirAll(p): p and every missing parent.
RECURSIVE MkdirAll(_)
MkdirAll(p) ==
    IF p = "/" \/ p = "." THEN {} ELSE {p} \cup MkdirAll(FilepathDir(p))

\* os.RemoveAll(p) on the paths of disk.
RemoveAll(disk, p) == {q \in disk : q # p /\ ~HasPrefix(q, p \o "/")}

\* The tarballs a download can deliver, by content.
Tarballs ==
    {"tgz-published", "tgz-tampered", "tgz-notgzip", "tgz-cut", "tgz-dotdot"}

\* hex.EncodeToString of the SHA-1 of the bytes.
Sha1Hex(bytes) ==
    CASE bytes = "tgz-published" -> "966c94b6847f3d6840c5750e0b14caec82214e56"
      [] bytes = "tgz-tampered" -> "2fd4e1c67a2d28fced849ee1bb76e7391b93eb12"
      [] bytes = "tgz-notgzip" -> "da39a3ee5e6b4b0d3255bfef95601890afd80709"
      [] bytes = "tgz-cut" -> "de9f2c7fd25e1b3afad3e85a0bd17d9b100db4b3"
      [] bytes = "tgz-dotdot" -> "7c4a8d09ca3762af61e59520943dc26494f8941b"
      [] OTHER -> "a9993e364706816aba3e25717850c26c9cd0d89d"

\* Whether gzip.NewReader accepts the bytes.
GzipOk(bytes) == bytes # "tgz-notgzip"

\* The tar headers the bytes hold, and the error tr.Next returns after them
\* ("" for io.EOF).
TarEntries(bytes) ==
    IF bytes = "tgz-cut"
    THEN <<[Name |-> "package", Typeflag |-> "dir"]>>
    ELSE IF bytes = "tgz-dotdot"
    THEN <<[Name |-> "package", Typeflag |-> "dir"],
           [Name |-> "/package/abs.js", Typeflag |-> "reg"],
           [Name |-> "package/../../../evil.js", Typeflag |-> "reg"],
           [Name |-> "package/dev", Typeflag |-> "chardev"]>>
    ELSE <<[Name |-> "package", Typeflag |-> "dir"],
           [Name |-> "package/package.json", Typeflag |-> "reg"],
           [Name |-> "package/dist/cdn.js", Typeflag |-> "reg"],
           [Name |-> "package/latest", Typeflag |-> "symlink"]>>

TarEnd(bytes) == IF bytes = "tgz-cut" THEN "unexpected EOF" ELSE ""

\* One pass of the loop of untar: what the entry creates under dst.
untarTarget(target, header) ==
    CASE header.Typeflag = "dir" -> MkdirAll(target)
      [] header.Typeflag = "reg" -> MkdirAll(FilepathDir(target)) \cup {target}
      [] OTHER -> {}

untarEntry(dst, header) == untarTarget(PathJoin(<<dst, header.Name>>), header)

\* untar: the paths created and the error returned.
untar(dst, bytes) ==
    IF ~GzipOk(bytes) THEN [created |-> {}, err |-> "gzip: invalid header"]
    ELSE [created |-> UNION {untarEntry(dst, TarEntries(bytes)[i]) :
                                i \in 1..Len(TarEntries(bytes))},
          err |-> TarEnd(bytes)]

\* How the GET of dist.Tarball can go.
\* "silent" is a server that accepts the connection and never answers:
\* http.Get uses http.DefaultClient, which has no timeout, and does not return.
DownloadAnswers ==
    {[kind |-> k, bytes |-> ""] :
        k \in {"unreachable", "badstatus", "aborted", "silent"}}
      \cup {[kind |-> "ok", bytes |-> b] : b \in Tarballs}

\* downloadTarball once the target is created: the error it returns, "" for nil.
downloadTarball(dist, d) ==
    CASE d.kind = "unreachable" ->
             "Get " \o Quote(dist.Tarball) \o ": dial tcp: connection refused"
      [] d.kind = "badstatus" -> "bad status: 404 Not Found"
      [] d.kind = "aborted" -> "unexpected EOF"
      [] OTHER -> IF Sha1Hex(d.bytes) # dist.ShaSum THEN "shasum mismatch" ELSE ""

\* The file names of CreateZipFromVersion and repackTarballAsZip.
TarFilename(dir, last) == PathJoin(<<dir, ReplaceAll(last.Name, "/", "_")>>)

TarDir(tarFilename, version) ==
    PathJoin(<<FilepathDir(tarFilename),
               version.Name \o "-" \o version.Version \o "-" \o version.Dist.ShaSum>>)

ZipFilename(tarFilename) == tarFilename \o ".zip"

\* The major-version suffix of repackTarballAsZip, major being semver.Major.
majorSuffix_FromV2(major) == IF major \in {"v0", "v1"} THEN "" ELSE major

majorSuffix(major) == IF major = "v1" THEN "" ELSE major

ZipMajor(version) == majorSuffix(semverMajor(version))

\* The module.Version repackTarballAsZip hands to zip.CreateFromDir.
ZipModule(version) ==
    [Path |-> PathJoin(<<ModPathBase, EscapePackage(version.Name),
                         ZipMajor(version.Version)>>),
     Version |-> version.Version]

NoModule == [Path |-> "", Version |-> ""]

\* The archive zip.CreateFromDir writes, as the bytes ServeContent sends.
ZipBytes(m, dir) == "zip of " \o dir \o " as " \o m.Path \o "@" \o m.Version

----------------------------------------------------------------------------
(* The environment: the requests clients send and what the registry holds. *)

\* All sequences without repetition over S, of length at most n.
RECURSIVE InjectiveSeqs(_, _)
InjectiveSeqs(S, n) ==
    IF n = 0 THEN {<<>>}
    ELSE LET shorter == InjectiveSeqs(S, n - 1)
         IN  shorter \cup
             {Append(q[1], q[2]) :
                q \in {p \in shorter \X S : \A i \in 1..Len(p[1]) : p[1][i] # p[2]}}

RECURSIVE Decimal(_)
Decimal(n) ==
    IF n < 10 THEN At("0123456789", n)
    ELSE Decimal(n \div 10) \o At("0123456789", n % 10)

\* The version strings the registry publishes, as published.
RawVersions == {"0.1.0", "1.0.0", "v2.0.0", "10.0.0"}

\* The dependencies a version declares, as name and range.
DeclaredDeps ==
    {[k |-> "@vue/reactivity", v |-> "^3.0.2"],
     [k |-> "lodash", v |-> "~4.17.0"],
     [k |-> "a_b", v |-> "1.x"]}

PublishedSha == Sha1Hex("tgz-published")

VersionJSON(name, raw, deps, sha) ==
    [name |-> name,
     version |-> raw,
     dependencies |-> deps,
     dist |-> [shasum |-> sha,
               tarball |-> "https://registry.npmjs.org/" \o name \o "/-/"
                           \o name \o "-" \o raw \o ".tgz"]]

\* The "versions" maps of the registry documents for package name, each as one
\* order in which Go's range may visit it: the map's size and order vary, or
\* the declared dependencies and their order, or the declared checksum.
VersionMaps(name) ==
    {[i \in 1..Len(q) |-> VersionJSON(name, q[i], <<>>, PublishedSha)] :
        q \in InjectiveSeqs(RawVersions, MaxVersions)}
      \cup
    {<<VersionJSON(name, "3.10.0", d, PublishedSha),
       VersionJSON(name, "1.0.0", d, PublishedSha)>> :
        d \in InjectiveSeqs(DeclaredDeps, MaxDeps)}
      \cup
    {<<VersionJSON(name, "3.10.0", <<>>, Sha1Hex(b))>> : b \in Tarballs}

\* How the registry can answer GET /s: no answer in time; a document for the
\* package; its 404 for a package it does not hold, whose body is the JSON
\* object {"error":"Not found"}; a gateway's error page, which is no JSON.
Answers(s) ==
    {[kind |-> "unreachable", status |-> 0, json |-> FALSE, name |-> "",
      hasTags |-> FALSE, tags |-> <<>>, versions |-> <<>>],
     [kind |-> "answered", status |-> 404, json |-> TRUE, name |-> "",
      hasTags |-> FALSE, tags |-> <<>>, versions |-> <<>>],
     [kind |-> "answered", status |-> 502, json |-> FALSE, name |-> "",
      hasTags |-> FALSE, tags |-> <<>>, versions |-> <<>>]}
      \cup
    {[kind |-> "answered", status |-> 200, json |-> TRUE, name |-> s,
      hasTags |-> TRUE,
      tags |-> IF m = <<>> THEN <<>> ELSE <<m[1].version>>,
      versions |-> m] : m \in VersionMaps(s)}

RequestModules ==
    {"alpinejs", "alpinejs/v3", "___vue/reactivity", "___vue/reactivity/v3",
     "@vue/reactivity"}

RequestVersions == {"v0.1.0", "v1.0.0", "v2.0.0", "v3.10.0", "v99.0.0"}

RequestPaths ==
    {"/" \o npmjsPrefix \o m \o "/@v/list" : m \in RequestModules}
      \cup
    {"/" \o npmjsPrefix \o m \o "/@v/" \o v \o "." \o e :
        m \in RequestModules, v \in RequestVersions, e \in {"info", "mod", "zip"}}
      \cup
    {"/", "/gohugo.io/npmjs/@v/list", "/gohugo.io/npmjs/alpinejs",
     "/example.com/alpinejs/@v/list"}

Requests == [method : {"GET", "DELETE"}, path : RequestPaths]

NoRequest == [method |-> "", path |-> ""]

\* The names ioutil.TempDir("", "npmgop") can pick: any that does not exist.
TempNamesUpTo(n) == {"/tmp/npmgop" \o Decimal(i) : i \in 1..n}

TempNames == TempNamesUpTo(MaxRequests)

\* ioutil.TempDir: the directory it creates did not exist.
FreshDirs_Reused(names, disk) == names

FreshDirs(names, disk) == names \ disk

----------------------------------------------------------------------------
(* The server: one request at a time, from ServeHTTP to its return.        *)

Init ==
    /\ sIn = "" /\ sMid = "" /\ sOut = "" /\ sOp = "server"
    /\ pc = "idle"
    /\ req = NoRequest
    /\ route = ""
    /\ mctx = NoContext
    /\ npmv = ZeroVersion
    /\ resp = NoResponse
    /\ fs = {"/tmp"}
    /\ tempDir = ""
    /\ zipFile = ""
    /\ built = NoModule
    /\ fetched = ""
    /\ dlErr = ""
    /\ upstream = 0
    /\ doc = <<>>
    /\ calls = 0
    /\ served = 0
    /\ inflight = <<>>

\* ServeHTTP is entered with request r and has come to d: a response of its
\* own, which ends it, or a handler to call.
Routed(r, d) ==
    /\ req' = r
    /\ route' = d.handler
    /\ mctx' = d.mctx
    /\ resp' = d.resp
    /\ pc' = IF d.handler = "" THEN "returned" ELSE "handler"

Receive ==
    /\ pc = "idle"
    /\ served < MaxRequests
    /\ \E r \in Requests : Routed(r, ServeHTTP(r))
    /\ UNCHANGED <<npmv, fs, tempDir, zipFile, built, fetched, dlErr, upstream, doc,
                   calls, served>>
    /\ UNCHANGED <<strVars, inflight>>

\* A handler that makes one call to the registry, answered by a, and returns
\* having left h.
Answered(a, h) ==
    /\ resp' = h.resp
    /\ npmv' = h.npmv
    /\ upstream' = a.status
    /\ doc' = a.versions
    /\ calls' = calls + 1
    /\ pc' = "returned"
    /\ UNCHANGED <<req, route, mctx, fs, tempDir, zipFile, built, fetched, dlErr,
                   served>>
    /\ UNCHANGED <<strVars, inflight>>

\* g.List, whole.
HandleList ==
    /\ pc = "handler" /\ route = "list"
    /\ \E a \in Answers(mctx.NpmPackage) : Answered(a, List(mctx, a))

\* g.Info, whole.
HandleInfo ==
    /\ pc = "handler" /\ route = "info"
    /\ \E a \in Answers(mctx.NpmPackage) : Answered(a, Info(mctx, a))

\* g.Mod, whole.
HandleMod ==
    /\ pc = "handler" /\ route = "npmgomodproxy"
    /\ \E a \in Answers(mctx.NpmPackage) : Answered(a, Mod(mctx, a))

\* g.Zip after FetchPackageVersion, answered by a, returned f.
ZipFetched(a, f) ==
    /\ npmv' = f.npmv
    /\ upstream' = a.status
    /\ IF f.err # ""
       THEN /\ resp' = fail("failed to fetch package version", f.err)
            /\ pc' = "returned"
       ELSE /\ resp' = resp
            /\ pc' = "zipDownload"

\* g.Zip up to the return of FetchPackageVersion.
ZipFetch ==
    /\ pc = "handler" /\ route = "zip"
    /\ \E a \in Answers(mctx.NpmPackage) :
         ZipFetched(a, FetchPackageVersion(mctx.NpmPackage, mctx.Version, a))
    /\ calls' = calls + 1
    /\ UNCHANGED <<req, route, mctx, fs, tempDir, zipFile, built, fetched, dlErr,
                   doc, served>>
    /\ UNCHANGED <<strVars, inflight>>

\* CreateZipFromVersion after downloadTarball, whose GET went as d, returned
\* err; dir is the staging directory.
ZipDownloaded(dir, d, err) ==
    /\ tempDir' = dir
    /\ fs' = fs \cup {dir, TarFilename(dir, npmv)}
    /\ fetched' = d.bytes
    /\ dlErr' = IF d.kind = "silent" THEN "" ELSE err
    /\ IF d.kind = "silent"
       THEN /\ resp' = resp
            /\ pc' = "zipBlocked"
       ELSE IF err # ""
            THEN /\ resp' = fail("failed to create module zip",
                                 "failed to download tarball: " \o err)
                 /\ pc' = "returned"
            ELSE /\ resp' = resp
                 /\ pc' = "zipRepack"

\* CreateZipFromVersion up to the return of downloadTarball: the staging
\* directory and the tarball file are created, then the download runs. An
\* error returns from g.Zip before its deferred cleanup is set up; a download
\* that is never answered leaves the handler in http.Get for good.
ZipDownload ==
    /\ pc = "zipDownload"
    /\ \E dir \in FreshDirs(TempNames, fs), d \in DownloadAnswers :
         ZipDownloaded(dir, d, downloadTarball(npmv.Dist, d))
    /\ calls' = calls + 1
    /\ UNCHANGED <<req, route, mctx, npmv, zipFile, built, upstream, doc, served>>
    /\ UNCHANGED <<strVars, inflight>>

\* repackTarballAsZip after untar returned u: the zip file is created and the
\* archive builder fills it, unless it rejects the tree.
ZipRepacked(tarFilename, tarDir, u) ==
    IF u.err # ""
    THEN /\ fs' = fs \cup MkdirAll(tarDir) \cup u.created
         /\ resp' = fail("failed to create module zip", "failed to untar: " \o u.err)
         /\ pc' = "returned"
         /\ UNCHANGED <<zipFile, built>>
    ELSE /\ fs' = fs \cup MkdirAll(tarDir) \cup u.created \cup {ZipFilename(tarFilename)}
         /\ zipFile' = ZipFilename(tarFilename)
         /\ built' = ZipModule(npmv)
         /\ \E builder \in {"ok", "rejected"} :
              IF builder = "rejected"
              THEN /\ resp' = fail("failed to create module zip",
                                   "create zip: rejected by the archive builder")
                   /\ pc' = "returned"
              ELSE /\ resp' = resp
                   /\ pc' = "zipServe"

ZipUntarred(tarFilename, tarDir) ==
    ZipRepacked(tarFilename, tarDir, untar(tarDir, fetched))

ZipUntar(tarFilename) == ZipUntarred(tarFilename, TarDir(tarFilename, npmv))

\* repackTarballAsZip: untar into the staging tree, create the zip file and
\* have the archive builder fill it. An error returns from g.Zip before its
\* deferred cleanup is set up.
ZipRepack ==
    /\ pc = "zipRepack"
    /\ ZipUntar(TarFilename(tempDir, npmv))
    /\ UNCHANGED <<req, route, mctx, npmv, tempDir, fetched, dlErr, upstream, doc,
                   calls, served>>
    /\ UNCHANGED <<strVars, inflight>>

\* http.ServeContent: the archive is sent, whole unless the client goes away.
ZipServe ==
    /\ pc = "zipServe"
    /\ \E client \in {"stays", "aborts"} :
         resp' = [status |-> 200,
                  body |-> ZipBytes(built, TarDir(TarFilename(tempDir, npmv), npmv)),
                  complete |-> client = "stays"]
    /\ pc' = "zipDeferred"
    /\ UNCHANGED <<req, route, mctx, npmv, fs, tempDir, zipFile, built, fetched,
                   dlErr, upstream, doc, calls, served>>
    /\ UNCHANGED <<strVars, inflight>>

\* The deferred function of g.Zip: f.Close and os.RemoveAll of f's directory.
ZipDeferred ==
    /\ pc = "zipDeferred"
    /\ fs' = RemoveAll(fs, FilepathDir(zipFile))
    /\ zipFile' = ""
    /\ pc' = "returned"
    /\ UNCHANGED <<req, route, mctx, npmv, resp, tempDir, built, fetched, dlErr,
                   upstream, doc, calls, served>>
    /\ UNCHANGED <<strVars, inflight>>

\* ServeHTTP has returned; the server takes the next request. What is on disk
\* stays on disk.
Return ==
    /\ pc = "returned"
    /\ pc' = "idle"
    /\ served' = served + 1
    /\ req' = NoRequest
    /\ route' = ""
    /\ mctx' = NoContext
    /\ npmv' = ZeroVersion
    /\ resp' = NoResponse
    /\ tempDir' = ""
    /\ zipFile' = ""
    /\ built' = NoModule
    /\ fetched' = ""
    /\ dlErr' = ""
    /\ upstream' = 0
    /\ doc' = <<>>
    /\ calls' = 0
    /\ UNCHANGED fs
    /\ UNCHANGED <<strVars, inflight>>

Next ==
    \/ Receive
    \/ HandleList
    \/ HandleInfo
    \/ HandleMod
    \/ ZipFetch
    \/ ZipDownload
    \/ ZipRepack
    \/ ZipServe
    \/ ZipDeferred
    \/ Return

Spec == Init /\ [][Next]_vars

----------------------------------------------------------------------------
(* The pure-function harness: the input is drawn in the initial state and  *)
(* the actions apply the functions to it.                                  *)

NameInputs == StringsUpTo("@_a/", MaxNameLen)
VersionInputs == StringsUpTo("v3.", MaxVerLen)

InitStrings ==
    /\ sIn \in NameInputs \cup VersionInputs
    /\ sMid = ""
    /\ sOut = ""
    /\ sOp = "input"
    /\ pc = "idle"
    /\ req = NoRequest
    /\ route = ""
    /\ mctx = NoContext
    /\ npmv = ZeroVersion
    /\ resp = NoResponse
    /\ fs = {"/tmp"}
    /\ tempDir = ""
    /\ zipFile = ""
    /\ built = NoModule
    /\ fetched = ""
    /\ dlErr = ""
    /\ upstream = 0
    /\ doc = <<>>
    /\ calls = 0
    /\ served = 0
    /\ inflight = <<>>

ApplyEscape ==
    /\ sOp = "input"
    /\ sMid' = EscapePackage(sIn)
    /\ sOut' = sMid'
    /\ sOp' = "escaped"
    /\ UNCHANGED <<sIn, srvVars>>

ApplyUnEscape ==
    /\ sOp = "escaped"
    /\ sOut' = UnEscapePackage(sMid)
    /\ sOp' = "unescaped"
    /\ UNCHANGED <<sIn, sMid, srvVars>>

ApplyNormalize ==
    /\ sOp = "input"
    /\ sMid' = normalizeSemver(sIn)
    /\ sOut' = sMid'
    /\ sOp' = "normalized"
    /\ UNCHANGED <<sIn, srvVars>>

ApplyNormalizeAgain ==
    /\ sOp = "normalized"
    /\ sOut' = normalizeSemver(sMid)
    /\ sOp' = "renormalized"
    /\ UNCHANGED <<sIn, sMid, srvVars>>

NextStrings ==
    \/ ApplyEscape
    \/ ApplyUnEscape
    \/ ApplyNormalize
    \/ ApplyNormalizeAgain

SpecStrings == InitStrings /\ [][NextStrings]_vars

----------------------------------------------------------------------------
(* Archive requests served concurrently: net/http runs ServeHTTP for each   *)
(* request in a goroutine of its own; the handlers share the disk only.    *)

Procs == 1..MaxInFlight

seqVars == <<pc, req, route, mctx, npmv, resp, tempDir, zipFile, built, fetched,
             dlErr, upstream, doc, calls, served>>

\* The locals of a Zip handler that has not been entered; made is what the
\* request has put on disk and still works with.
NotEntered ==
    [pc |-> "idle", npmv |-> ZeroVersion, tempDir |-> "", zipFile |-> "",
     fetched |-> "", made |-> {}, cleaned |-> FALSE]

\* The handler of a request has returned: its locals are gone.
Returned(r, didCleanup) ==
    [NotEntered EXCEPT !.pc = "done", !.npmv = r.npmv, !.cleaned = didCleanup]

\* The archive requests the clients send at the same time.
ConcurrentPaths ==
    {"/gohugo.io/npmjs/alpinejs/@v/v1.0.0.zip",
     "/gohugo.io/npmjs/alpinejs/v2/@v/v2.0.0.zip",
     "/gohugo.io/npmjs/___vue/reactivity/v2/@v/v2.0.0.zip"}

\* The registry's document for package s.
PublishedAnswer(s) ==
    [kind |-> "answered", status |-> 200, json |-> TRUE, name |-> s,
     hasTags |-> TRUE, tags |-> <<"v2.0.0">>,
     versions |-> <<VersionJSON(s, "v2.0.0", <<>>, PublishedSha),
                    VersionJSON(s, "1.0.0", <<>>, PublishedSha)>>]

\* How the downloads of concurrent requests go.
ConcurrentDownloads ==
    {d \in DownloadAnswers : d.kind = "aborted" \/ d.bytes = "tgz-published"}

InitConcurrent ==
    /\ sIn = "" /\ sMid = "" /\ sOut = "" /\ sOp = "concurrent"
    /\ pc = "idle"
    /\ req = NoRequest
    /\ route = ""
    /\ mctx = NoContext
    /\ npmv = ZeroVersion
    /\ resp = NoResponse
    /\ fs = {"/tmp"}
    /\ tempDir = ""
    /\ zipFile = ""
    /\ built = NoModule
    /\ fetched = ""
    /\ dlErr = ""
    /\ upstream = 0
    /\ doc = <<>>
    /\ calls = 0
    /\ served = 0
    /\ inflight = [p \in Procs |-> NotEntered]

\* What FetchPackageVersion returns to g.Zip when ServeHTTP has come to d.
FetchedAt(d) ==
    FetchPackageVersion(d.mctx.NpmPackage, d.mctx.Version,
                        PublishedAnswer(d.mctx.NpmPackage))

\* ServeHTTP and g.Zip up to the return of FetchPackageVersion, for each of
\* the concurrent requests.
ArchiveFetches ==
    {FetchedAt(ServeHTTP([method |-> "GET", path |-> path])) : path \in ConcurrentPaths}

\* Request p arrives: ServeHTTP routes it to g.Zip, which fetches the version.
EnterZip(p) ==
    /\ inflight[p].pc = "idle"
    /\ \E f \in ArchiveFetches :
         /\ f.err = ""
         /\ inflight' = [inflight EXCEPT ![p].npmv = f.npmv, ![p].pc = "zipDownload"]
    /\ UNCHANGED <<fs, strVars, seqVars>>

\* CreateZipFromVersion of request p after downloadTarball returned err.
DownloadedFor(p, dir, tarFilename, d, err) ==
    /\ fs' = fs \cup {dir, tarFilename}
    /\ inflight' = [inflight EXCEPT ![p] =
                       IF err # "" THEN Returned(@, FALSE)
                       ELSE [@ EXCEPT !.tempDir = dir,
                                      !.fetched = d.bytes,
                                      !.made = {dir, tarFilename},
                                      !.pc = "zipRepack"]]
    /\ UNCHANGED <<strVars, seqVars>>

\* CreateZipFromVersion of request p up to the return of downloadTarball.
DownloadFor(p) ==
    /\ inflight[p].pc = "zipDownload"
    /\ \E dir \in FreshDirs(TempNamesUpTo(MaxInFlight), fs), d \in ConcurrentDownloads :
         DownloadedFor(p, dir, TarFilename(dir, inflight[p].npmv), d,
                       downloadTarball(inflight[p].npmv.Dist, d))

\* repackTarballAsZip of request p after untar returned u.
RepackedFor(p, tarFilename, tarDir, u) ==
    /\ IF u.err # ""
       THEN /\ fs' = fs \cup MkdirAll(tarDir) \cup u.created
            /\ inflight' = [inflight EXCEPT ![p] = Returned(@, FALSE)]
       ELSE /\ fs' = fs \cup MkdirAll(tarDir) \cup u.created
                        \cup {ZipFilename(tarFilename)}
            /\ \E builder \in {"ok", "rejected"} :
                 inflight' = [inflight EXCEPT ![p] =
                                 IF builder = "rejected" THEN Returned(@, FALSE)
                                 ELSE [@ EXCEPT
                                         !.zipFile = ZipFilename(tarFilename),
                                         !.made = @ \cup MkdirAll(tarDir) \cup u.created
                                                    \cup {ZipFilename(tarFilename)},
                                         !.pc = "zipServe"]]
    /\ UNCHANGED <<strVars, seqVars>>

UntarredFor(p, tarFilename, tarDir) ==
    RepackedFor(p, tarFilename, tarDir, untar(tarDir, inflight[p].fetched))

UntarFor(p, tarFilename) ==
    UntarredFor(p, tarFilename, TarDir(tarFilename, inflight[p].npmv))

\* repackTarballAsZip of request p.
RepackFor(p) ==
    /\ inflight[p].pc = "zipRepack"
    /\ UntarFor(p, TarFilename(inflight[p].tempDir, inflight[p].npmv))

\* http.ServeContent of request p.
ServeFor(p) ==
    /\ inflight[p].pc = "zipServe"
    /\ inflight' = [inflight EXCEPT ![p].pc = "zipDeferred"]
    /\ UNCHANGED <<fs, strVars, seqVars>>

\* The deferred function of g.Zip of request p.
CleanupFor(p) ==
    /\ inflight[p].pc = "zipDeferred"
    /\ fs' = RemoveAll(fs, FilepathDir(inflight[p].zipFile))
    /\ inflight' = [inflight EXCEPT ![p] = Returned(@, TRUE)]
    /\ UNCHANGED <<strVars, seqVars>>

NextConcurrent ==
    \E p \in Procs :
        \/ EnterZip(p)
        \/ DownloadFor(p)
        \/ RepackFor(p)
        \/ ServeFor(p)
        \/ CleanupFor(p)

SpecConcurrent == InitConcurrent /\ [][NextConcurrent]_vars

----------------------------------------------------------------------------
(* The decoding harness: one registry document is decoded twice, the map   *)
(* of its versions visited in an order of Go's choosing each time.         *)

\* Raw version strings a registry document can hold side by side.
RawTies == {"1.0.0", "v1.0.0", "1.0.0+a", "1.0.0+b", "2.0.0"}

Elements(q) == {q[i] : i \in 1..Len(q)}

\* Two visiting orders of the same "versions" map of package "alpinejs".
VisitOf(q) == [i \in 1..Len(q) |-> VersionJSON("alpinejs", q[i], <<>>, PublishedSha)]

VisitPairsOf(orders) ==
    {<<VisitOf(p[1]), VisitOf(p[2])>> :
        p \in {o \in orders \X orders : Elements(o[1]) = Elements(o[2])}}

VisitPairs == VisitPairsOf(InjectiveSeqs(RawTies, MaxVersions))

InitDecode ==
    /\ sIn \in VisitPairs
    /\ sMid = <<>>
    /\ sOut = <<>>
    /\ sOp = "document"
    /\ pc = "idle"
    /\ req = NoRequest
    /\ route = ""
    /\ mctx = NoContext
    /\ npmv = ZeroVersion
    /\ resp = NoResponse
    /\ fs = {"/tmp"}
    /\ tempDir = ""
    /\ zipFile = ""
    /\ built = NoModule
    /\ fetched = ""
    /\ dlErr = ""
    /\ upstream = 0
    /\ doc = <<>>
    /\ calls = 0
    /\ served = 0
    /\ inflight = <<>>

DecodeOnce ==
    /\ sOp = "document"
    /\ sMid' = VersionsUnmarshalJSON(sIn[1])
    /\ sOp' = "decoded"
    /\ UNCHANGED <<sIn, sOut, srvVars>>

DecodeAgain ==
    /\ sOp = "decoded"
    /\ sOut' = VersionsUnmarshalJSON(sIn[2])
    /\ sOp' = "redecoded"
    /\ UNCHANGED <<sIn, sMid, srvVars>>

NextDecode ==
    \/ DecodeOnce
    \/ DecodeAgain

SpecDecode == InitDecode /\ [][NextDecode]_vars

----------------------------------------------------------------------------
(* Claims about the pure functions.                                        *)

\* The names npm accepts: lower-case URL-safe bytes, not starting with '_',
\* optionally scoped as @scope/name.
NoneOf(s, bytes) == \A i \in 0..(Len(s) - 1) : Index(bytes, At(s, i)) = -1

ValidUnscopedName(s) == s # "" /\ NoneOf(s, "@/") /\ At(s, 0) # "_"

ValidPackageName(s) ==
    \/ ValidUnscopedName(s)
    \/ /\ HasPrefix(s, "@")
       /\ Index(s, "/") > 1
       /\ NoneOf(SubSeq(s, 2, Index(s, "/")), "@/")
       /\ ValidUnscopedName(From(s, Index(s, "/") + 1))

\* C1: for every valid package name x, UnEscapePackage(EscapePackage(x)) = x.
EscapeRoundTrip ==
    (sOp = "unescaped" /\ ValidPackageName(sIn)) => sOut = sIn

\* C2: normalizeSemver adds "v" exactly when the input does not start with
\* "v", is idempotent, and sends "3.3.3" and "v3.3.3" to the same string.
NormalizeIdempotent ==
    /\ sOp = "normalized" =>
          /\ HasPrefix(sIn, "v") => sOut = sIn
          /\ ~HasPrefix(sIn, "v") => sOut = "v" \o sIn
          /\ sIn \in {"3.3.3", "v3.3.3"} => sOut = "v3.3.3"
    /\ sOp = "renormalized" => sOut = sMid

NormalizeIdempotentWitness ==
    sOp = "renormalized" /\ sIn = "3.3.3" /\ sOut = "v3.3.3"

----------------------------------------------------------------------------
(* Claims about the server.                                                *)

\* The lines of a response body: strings.Join undone.
RECURSIVE LinesFrom(_, _)
LinesFrom(s, nl) ==
    IF nl = -1 THEN <<s>>
    ELSE <<Upto(s, nl)>> \o LinesFrom(From(s, nl + 1), Index(From(s, nl + 1), "\n"))

LinesOf(body) == IF body = "" THEN <<>> ELSE LinesFrom(body, Index(body, "\n"))

\* How often sub occurs in s, counted from its offset at within s.
RECURSIVE CountFrom(_, _, _)
CountFrom(s, sub, at) ==
    IF at = -1 THEN 0
    ELSE 1 + CountFrom(From(s, at + Len(sub)), sub, Index(From(s, at + Len(sub)), sub))

CountOf(s, sub) == CountFrom(s, sub, Index(s, sub))

\* The number a string of decimal digits writes.
RECURSIVE NumberOf(_)
NumberOf(s) ==
    IF s = "" THEN 0
    ELSE NumberOf(Upto(s, Len(s) - 1)) * 10 + Index("0123456789", At(s, Len(s) - 1))

\* "vA.B.C" as the numbers <<A, B, C>>, and their order.
NumbersAfter(rest, dot) ==
    <<NumberOf(Upto(rest, dot)), NumberOf(From(rest, dot + 1))>>

NumbersOf(v, dot) ==
    <<NumberOf(SubSeq(v, 2, dot))>>
      \o NumbersAfter(From(v, dot + 1), Index(From(v, dot + 1), "."))

VersionNumbers(v) == NumbersOf(v, Index(v, "."))

NumbersLess(a, b) ==
    \/ a[1] < b[1]
    \/ a[1] = b[1] /\ a[2] < b[2]
    \/ a[1] = b[1] /\ a[2] = b[2] /\ a[3] < b[3]

WithV(raw) == IF At(raw, 0) = "v" THEN raw ELSE "v" \o raw

ListsExactly(lines, published) ==
    /\ Len(lines) = Len(published)
    /\ {lines[i] : i \in 1..Len(lines)}
         = {WithV(published[i].version) : i \in 1..Len(published)}
    /\ \A i \in 1..(Len(lines) - 1) :
          NumbersLess(VersionNumbers(lines[i]), VersionNumbers(lines[i + 1]))

\* C3: when the registry publishes a package, list answers 200 with exactly
\* the published versions, each with its "v", one per line in ascending
\* semantic-version order, whatever the order the map was visited in; the
\* body is empty when there are none.
ListAnswersPublished ==
    (pc = "returned" /\ route = "list" /\ upstream = 200) =>
        /\ resp.status = 200
        /\ resp.complete
        /\ ListsExactly(LinesOf(resp.body), doc)
        /\ doc = <<>> => resp.body = ""

ListAnswersPublishedWitness ==
    /\ pc = "returned" /\ route = "list" /\ upstream = 200
    /\ Len(doc) = 3 /\ doc[1].version = "10.0.0" /\ doc[3].version = "0.1.0"
    /\ resp.body = "v0.1.0\nv2.0.0\nv10.0.0"

\* Whether the response reports that the requested version was not found.
SaysVersionNotFound(r, version) ==
    Index(r.body, "version " \o Quote(version) \o " not found for package") # -1

\* C4: the outcome "version not found" is given only for a package the
\* registry holds, so that it tells a missing version from a missing package
\* and from a registry that cannot be reached.
VersionNotFoundMeansPackageExists ==
    (pc = "returned" /\ route \in {"info", "npmgomodproxy", "zip"}
       /\ SaysVersionNotFound(resp, mctx.Version))
      => upstream = 200

\* C5: after a checksum mismatch the request fails, nothing was repacked or
\* served, and the downloaded file is gone when the handler has returned.
MismatchLeavesNoFile ==
    (pc = "returned" /\ dlErr = "shasum mismatch") =>
        /\ resp.status = 500
        /\ built = NoModule
        /\ TarFilename(tempDir, npmv) \notin fs

\* C6: when the archive handler has returned, the staging directory it created
\* and everything in it are gone, on every exit path; and the zip file is
\* still there while the body is being served.
StagingRemovedOnEveryExit ==
    /\ (pc = "returned" /\ tempDir # "") => RemoveAll(fs, tempDir) = fs
    /\ pc = "zipServe" => zipFile \in fs

\* The suffix a version's major component gives: none for 1, else "/vN".
SuffixOfMajor(major) == IF major = "1" THEN "" ELSE "/v" \o major

SuffixOf(v) == SuffixOfMajor(SubSeq(v, 2, Index(v, ".")))

\* C7: the module path handed to the archive builder is ModPathBase, the
\* escaped package name and the suffix of the version's own major component:
\* none for major 1, "/vN" for every other N, 0 and 2 included, whatever the
\* request path carried.
ZipPathFromVersion ==
    built # NoModule =>
        /\ built.Path = ModPathBase \o "/" \o EscapePackage(npmv.Name)
                          \o SuffixOf(npmv.Version)
        /\ built.Version = npmv.Version

ZipPathFromVersionWitness ==
    /\ pc = "zipServe"
    /\ mctx.PathMajorVersion = "/v3"
    /\ npmv.Version = "v2.0.0"
    /\ built.Path = "gohugo.io/npmjs/___vue/reactivity/v2"

\* C8: the module path the manifest declares is the module path the archive
\* of the same package and version is built under.
ModDeclaresZipPath ==
    (pc = "returned" /\ route = "npmgomodproxy" /\ resp.status = 200) =>
        HasPrefix(resp.body, "\n\nmodule " \o ZipModule(npmv).Path \o "\n")

\* The dependencies the registry declares for the decoded version v, as the
\* decoder visits them.
DeclaredFor(published, v) ==
    published[CHOOSE i \in 1..Len(published) : WithV(published[i].version) = v]
        .dependencies

RequireLine(name) == "\tgohugo.io/npmjs/" \o EscapePackage(name) \o "/v3 "

RequiresMatch(deps, declared, body) ==
    /\ Len(deps) = Len(declared)
    /\ {deps[i].Name : i \in 1..Len(deps)} = {declared[i].k : i \in 1..Len(declared)}
    /\ \A i \in 1..(Len(deps) - 1) : StrLess(deps[i].Name, deps[i + 1].Name)
    /\ CountOf(body, "\tgohugo.io/npmjs/") = Len(deps)
    /\ \A i \in 1..Len(deps) : CountOf(body, RequireLine(deps[i].Name)) = 1
    /\ \A i \in 1..(Len(deps) - 1) :
          Index(body, RequireLine(deps[i].Name))
            < Index(body, RequireLine(deps[i + 1].Name))
    /\ CountOf(body, "require (") = IF deps = <<>> THEN 0 ELSE 1

\* C9: a decoded version has one dependency per declared name, in ascending
\* order of name whatever the order the map was visited in, and the manifest
\* has one require line per dependency in that order, and no require block
\* when there is none.
ModRequiresDeclared ==
    (pc = "returned" /\ route = "npmgomodproxy" /\ resp.status = 200) =>
        RequiresMatch(npmv.Dependencies, DeclaredFor(doc, npmv.Version), resp.body)

ModRequiresDeclaredWitness ==
    /\ pc = "returned" /\ route = "npmgomodproxy" /\ resp.status = 200
    /\ Len(npmv.Dependencies) = 2
    /\ npmv.Dependencies[1].Name = "@vue/reactivity"
    /\ npmv.Dependencies[2].Name = "lodash"
    /\ doc[1].dependencies[1].k = "lodash"

\* C10: a DELETE request, whatever its path, is answered 405 by ServeHTTP
\* itself: no route is taken, no handler runs, no call goes out and no
\* staging directory is created.
DeleteNotAllowed ==
    (req.method = "DELETE") =>
        /\ pc = "returned"
        /\ resp.status = 405
        /\ route = ""
        /\ calls = 0
        /\ upstream = 0
        /\ tempDir = ""
        /\ zipFile = ""

DeleteNotAllowedWitness ==
    /\ req.method = "DELETE"
    /\ req.path = "/gohugo.io/npmjs/alpinejs/v3/@v/v3.10.0.zip"
    /\ resp.status = 405

\* C11: every outbound call is bounded by a timeout, so no handler is ever
\* left waiting for an upstream that never answers: "zipBlocked", where the
\* handler waits in a call nothing bounds and no step of it is left, is not
\* reached.
NoUnboundedWait == pc # "zipBlocked"

\* Whether a request holds a staging directory it has not cleaned up yet.
Staging(r) == r.pc \in {"zipRepack", "zipServe", "zipDeferred"}

\* C12: under every interleaving, requests that hold a staging directory hold
\* different ones, and everything such a request has downloaded, unpacked or
\* zipped is still on disk, whatever the other requests have cleaned up.
StagingIsOwn ==
    /\ \A p, q \in DOMAIN inflight :
          (p # q /\ Staging(inflight[p]) /\ Staging(inflight[q]))
            => inflight[p].tempDir # inflight[q].tempDir
    /\ \A p \in DOMAIN inflight :
          Staging(inflight[p]) =>
              /\ inflight[p].tempDir \in inflight[p].made
              /\ inflight[p].made \subseteq fs

StagingIsOwnWitness ==
    /\ DOMAIN inflight = Procs
    /\ inflight[1].pc = "zipServe"
    /\ inflight[2].pc = "done" /\ inflight[2].cleaned
    /\ inflight[1].npmv = inflight[2].npmv
    /\ inflight[1].zipFile \in fs

\* The steps the info, manifest and archive handlers name when they fail.
FailingSteps == {"failed to fetch package version", "failed to create module zip"}

\* Whether sub occurs in s.
Contains(s, sub) ==
    \E i \in 0..(Len(s) - Len(sub)) : SubSeq(s, i + 1, i + Len(sub)) = sub

\* A body of the form "<failing step>: <error text>", on one line and with
\* nothing of a JSON record, a manifest or an archive in it.
IsStepError(body) ==
    /\ \E step \in FailingSteps :
          HasPrefix(body, step \o ": ") /\ Len(body) > Len(step) + 2
    /\ ~Contains(body, "\n")
    /\ ~Contains(body, "{\"Version\":")
    /\ ~Contains(body, "go 1.17")
    /\ ~Contains(body, "zip of ")

\* Whether a step of the request being served is known to have failed: the
\* registry did not deliver the package, the version is not the requested
\* one, the download or its checksum failed, the tarball could not be
\* unpacked, or the archive builder returned without the cleanup having run.
SomeStepFailed ==
    \/ upstream # 200
    \/ npmv.Version # mctx.Version
    \/ dlErr # ""
    \/ route = "zip" /\ tempDir = ""
    \/ route = "zip" /\ Sha1Hex(fetched) # npmv.Dist.ShaSum
    \/ route = "zip" /\ (~GzipOk(fetched) \/ TarEnd(fetched) # "")
    \/ route = "zip" /\ zipFile # ""

\* C13: when a step of info, manifest or archive fails, the answer is 500
\* with "<failing step>: <error text>" and nothing of a success payload; a
\* success payload is written only when every step succeeded.
FailureIsReported ==
    (pc = "returned" /\ route \in {"info", "npmgomodproxy", "zip"}) =>
        /\ resp.status \in {200, 500}
        /\ SomeStepFailed => resp.status = 500
        /\ resp.status = 500 => (resp.complete /\ IsStepError(resp.body))
        /\ resp.status = 200 => (~SomeStepFailed /\ ~IsStepError(resp.body))

FailureIsReportedWitness ==
    /\ pc = "returned" /\ route = "zip"
    /\ dlErr = "shasum mismatch"
    /\ resp.status = 500
    /\ resp.body = "failed to create module zip: failed to download tarball: shasum mismatch"

\* C14: two decodes of the same registry document give the same sequence of
\* versions, whatever the orders the map was visited in, also when two raw
\* versions normalise to the same string or differ in build metadata only.
DecodeIsDeterministic == sOp = "redecoded" => sMid = sOut

\* Whether path p is a staging directory or lies in one.
InStaging(p) == \E d \in TempNames : p = d \/ HasPrefix(p, d \o "/")

\* C15: whatever the entry names of a tarball, unpacking creates directories
\* and files inside the staging directory only, and entries that are neither
\* directories nor regular files create nothing and do not fail the unpack.
UntarStaysInStaging ==
    /\ \A p \in fs : p = "/tmp" \/ InStaging(p)
    /\ (pc = "zipServe" /\ fetched = "tgz-published") =>
          PathJoin(<<TarDir(TarFilename(tempDir, npmv), npmv), "package/latest">>)
              \notin fs

====
